---- MODULE Spec2Model ----
(***************************************************************************)
(* A model of the entity marshalling and query compilation engine of MLH   *)
(* (src/MLH/utils.py, src/MLH/Farmbot.py).                                 *)
(*                                                                         *)
(* Python values are modelled as tagged records:                           *)
(*   None               [t |-> "none"]                                     *)
(*   int / float / bool [t |-> "int" | "float" | "bool", n |-> number]     *)
(*   datetime           [t |-> "datetime", n |-> seconds]                  *)
(*   dict               [t |-> "dict", d |-> function from keys to values] *)
(*   list               [t |-> "list", items |-> sequence of values]       *)
(*   Entity instance    [t |-> "entity", cls |-> class name, d |-> the     *)
(*                       instance __dict__]                                *)
(*   str                [t |-> "str", form |-> ..., ...]: a string is kept *)
(*                      as the lexical form the regular expressions of the *)
(*                      code tell apart (see the Text section).            *)
(* A call either returns a value, [ok |-> TRUE, v |-> value], or raises,   *)
(* [ok |-> FALSE, err |-> exception type].                                 *)
(***************************************************************************)
EXTENDS Integers, Sequences, FiniteSets, TLC

VARIABLES
    now,        \* what datetime.utcnow() returns, in seconds
    factories,  \* utils.factories: the shapes that have a conversion function
    funcs,      \* the function objects made for a shape and the one cached
    resolved,   \* the record types whose EntityFactory.props are computed
    pointQuery, \* the PointQuery object constructed (its attributes), or None
    request,    \* the call the client makes: its operation and arguments
    last,       \* the last call made and its outcome
    callers,    \* the threads inside get_factory: where each is, what it holds
    held,       \* the record the client holds, and how often it was updated
    raw,        \* the mapping the client passed to make that record, as it is
    farmware    \* the Farmware object: its debug flag and its sync() call

vars == <<now, factories, funcs, resolved, pointQuery, request, last, callers, held, raw,
          farmware>>

(***************************************************************************)
(* Bounds of the model.                                                    *)
(***************************************************************************)
MaxTicks == 1       \* how often the clock advances
MaxCount == 1       \* the largest N of 'in N unit', 'N unit ago', 'at least N'
MaxRemote == 2      \* the most records the remote search returns
MaxCallers == 2     \* the threads that call get_factory at the same time
MaxCalls == 2       \* how often one thread calls get_factory
MaxApplies == 1     \* how often apply is called on one record

StartTime == 5000000    \* utcnow() of the initial state (seconds)

(***************************************************************************)
(* Outcomes of a call.                                                     *)
(***************************************************************************)
Ok(v) == [ok |-> TRUE, v |-> v]
Raise(e) == [ok |-> FALSE, err |-> e]

(***************************************************************************)
(* Values.                                                                 *)
(***************************************************************************)
None == [t |-> "none"]
PyInt(n) == [t |-> "int", n |-> n]
PyFloat(n) == [t |-> "float", n |-> n]
PyBool(b) == [t |-> "bool", n |-> IF b THEN 1 ELSE 0]
DateTime(n) == [t |-> "datetime", n |-> n]
Date(n) == [t |-> "date", n |-> n]              \* n: the day number
TimeDelta(n) == [t |-> "timedelta", n |-> n]    \* n: seconds
Dict(d) == [t |-> "dict", d |-> d]
PyList(items) == [t |-> "list", items |-> items]
Instance(cls, d) == [t |-> "entity", cls |-> cls, d |-> d]
EmptyMap == [k \in {} |-> None]

(***************************************************************************)
(* Text.  The forms are those the code's regular expressions distinguish:  *)
(*   word     any other text (w is the text; "" is the empty string)       *)
(*   num      the text of an integer literal, such as '10'                 *)
(*   now      'now'                                                        *)
(*   in       'in N unit' / 'in N units'                                   *)
(*   ago      'N unit ago' / 'N units ago'                                 *)
(*   iso      'YYYY-MM-DDThh:mm:ss[.f]Z' of instant n with frac fraction   *)
(*            digits (0: no fraction part)                                 *)
(*   isodate  'YYYY-MM-DD' of day number n                                 *)
(*   atleast  'at least N',  atmost  'at most N'                           *)
(*   repr     str(v) of a value v that is neither None, a string, an       *)
(*            integer nor a boolean                                        *)
(* q is a leading qualifier, "before" or "after", or "" for none.          *)
(***************************************************************************)
Word(w) == [t |-> "str", form |-> "word", w |-> w]
NumText(n) == [t |-> "str", form |-> "num", n |-> n]
NowText(q) == [t |-> "str", form |-> "now", q |-> q]
InText(q, n, u, pl) == [t |-> "str", form |-> "in", q |-> q, n |-> n, u |-> u, pl |-> pl]
AgoText(q, n, u, pl) == [t |-> "str", form |-> "ago", q |-> q, n |-> n, u |-> u, pl |-> pl]
IsoText(q, n, frac) == [t |-> "str", form |-> "iso", q |-> q, n |-> n, frac |-> frac]
IsoDateText(n) == [t |-> "str", form |-> "isodate", n |-> n]
AtLeastText(n) == [t |-> "str", form |-> "atleast", n |-> n]
AtMostText(n) == [t |-> "str", form |-> "atmost", n |-> n]
ReprText(v) == [t |-> "str", form |-> "repr", of |-> v]

IsStr(v) == v.t = "str"
IsNumber(v) == v.t \in {"int", "float", "bool"}

\* Python truthiness of a value (bool(v)).
Truthy(v) ==
    CASE v.t = "none" -> FALSE
      [] IsNumber(v) -> v.n # 0
      [] v.t = "timedelta" -> v.n # 0
      [] IsStr(v) -> ~(v.form = "word" /\ v.w = "")
      [] v.t = "dict" -> DOMAIN v.d # {}
      [] v.t = "list" -> v.items # <<>>
      [] OTHER -> TRUE

\* Python ==: numbers compare by value, everything else by type and content.
PyEq(a, b) ==
    IF IsNumber(a) /\ IsNumber(b) THEN a.n = b.n ELSE a = b

(***************************************************************************)
(* timedelta keywords.  parse_offset passes unit + 's' as the keyword of    *)
(* timedelta; timedelta has no 'years' keyword.                            *)
(***************************************************************************)
UnitSeconds == [weeks |-> 604800, days |-> 86400, hours |-> 3600,
                minutes |-> 60, seconds |-> 1]
Plural == [year |-> "years", week |-> "weeks", day |-> "days", hour |-> "hours",
           minute |-> "minutes", second |-> "seconds"]

\* timedelta(kw=n): the offset, or TypeError for a keyword timedelta
\* does not take.
timedelta(kw, n) ==
    IF kw \in DOMAIN UnitSeconds THEN Ok(TimeDelta(n * UnitSeconds[kw]))
    ELSE Raise("TypeError")

\* parse_offset(offset, days): Ok(None) when the text is no offset.
OffsetUnits(days) ==
    IF days THEN {"year", "week", "day"}
    ELSE {"year", "week", "day", "hour", "minute", "second"}
parse_offset(offset, days) ==
    IF ~Truthy(offset) THEN Ok(None)
    ELSE IF days /\ offset = Word("today") THEN Ok(TimeDelta(0))
    ELSE IF days /\ offset = Word("yesterday") THEN timedelta("days", -1)
    ELSE IF days /\ offset = Word("tomorrow") THEN timedelta("days", 1)
    ELSE IF ~days /\ offset.form = "now" /\ offset.q = "" THEN Ok(TimeDelta(0))
    ELSE IF offset.form = "in" /\ offset.q = "" /\ offset.u \in OffsetUnits(days)
    THEN timedelta(Plural[offset.u], offset.n)
    ELSE IF offset.form = "ago" /\ offset.q = "" /\ offset.u \in OffsetUnits(days)
    THEN timedelta(Plural[offset.u], -offset.n)
    ELSE Ok(None)

\* datetime.strptime(val.strip(), "%Y-%m-%dT%H:%M:%S.%fZ"): the fraction
\* part is required and %f takes one to six digits.
strptime_datetime(val) ==
    IF val.form = "iso" /\ val.q = "" /\ val.frac \in 1..6
    THEN Ok(DateTime(val.n))
    ELSE Raise("ValueError")

\* datetime.strptime(val.strip(), "%Y-%m-%d").date()
strptime_date(val) ==
    IF val.form = "isodate" THEN Ok(Date(val.n)) ELSE Raise("ValueError")

\* datetime.utcfromtimestamp(val if val < 10000000000 else val / 1000): every
\* number of the model is below 10000000000, so it is taken as seconds.
utcfromtimestamp(val) == DateTime(val.n)

DayOf(seconds) == seconds \div UnitSeconds["days"]

\* The end of parse_datetime: offset is what parse_offset(val, False) gave.
ParseDatetimeText(val, offset, utcnow) ==
    IF ~offset.ok THEN offset
    ELSE IF Truthy(offset.v) THEN Ok(DateTime(utcnow + offset.v.n))
    ELSE strptime_datetime(val)

\* parse_datetime(val, default), reading the clock as utcnow.
parse_datetime(val, default, utcnow) ==
    IF ~Truthy(val) THEN Ok(default)
    ELSE IF val.t = "datetime" THEN Ok(val)
    ELSE IF IsNumber(val) THEN Ok(utcfromtimestamp(val))
    ELSE IF ~IsStr(val) THEN Raise("AttributeError")    \* no .strip()
    ELSE ParseDatetimeText(val, parse_offset(val, FALSE), utcnow)

\* The end of parse_date: offset is what parse_offset(val, True) gave.
ParseDateText(val, offset, utcnow) ==
    IF ~offset.ok THEN offset
    ELSE IF Truthy(offset.v) THEN Ok(Date(DayOf(utcnow) + DayOf(offset.v.n)))
    ELSE strptime_date(val)

\* parse_date(val, default), reading the clock as utcnow.
parse_date(val, default, utcnow) ==
    IF ~Truthy(val) THEN Ok(default)
    ELSE IF val.t \in {"date", "datetime"} THEN Ok(val)
    ELSE IF IsNumber(val) THEN Ok(Date(DayOf(utcfromtimestamp(val).n)))
    ELSE IF ~IsStr(val) THEN Raise("AttributeError")    \* no .strip()
    ELSE ParseDateText(val, parse_offset(val, TRUE), utcnow)

\* dump_datetime(val): the canonical text has six fraction digits.
dump_datetime(val) ==
    IF Truthy(val) THEN IsoText("", val.n, 6) ELSE None

(***************************************************************************)
(* Shape descriptors (the keys of utils.factories).                        *)
(***************************************************************************)
Prim(name) == [k |-> "prim", name |-> name]
Opt(of) == [k |-> "opt", of |-> of]                     \* Optional[of]
ListOf(of) == [k |-> "list", of |-> of]                 \* List[of]
DictOf(key, val) == [k |-> "dict", key |-> key, val |-> val]   \* Dict[key, val]
Class(name) == [k |-> "class", name |-> name]           \* an Entity subclass
Other(name) == [k |-> "other", name |-> name]           \* any other type

\* The factories dictionary as utils.py creates it.
InitialFactories ==
    {Prim(n) : n \in {"Any", "bool", "str", "int", "float", "date", "datetime"}}
InitialMade == [t \in InitialFactories |-> [n |-> 1, id |-> 1]]

(***************************************************************************)
(* The record types: typing.get_type_hints(cls), base classes first.       *)
(***************************************************************************)
CoordinateHints == << <<"x", Prim("int")>>, <<"y", Prim("int")>>, <<"z", Prim("int")>> >>
IdentifiableHints ==
    << <<"id", Prim("int")>>, <<"created_at", Prim("datetime")>>,
       <<"updated_at", Prim("datetime")>> >>
PointHints ==
    CoordinateHints \o IdentifiableHints \o
    << <<"device_id", Prim("int")>>, <<"pointer_type", Prim("str")>>,
       <<"name", Prim("str")>>, <<"meta", DictOf(Prim("str"), Prim("Any"))>>,
       <<"radius", Prim("float")>>, <<"discarded_at", Opt(Prim("datetime"))>> >>
PlantHints ==
    PointHints \o
    << <<"openfarm_slug", Prim("str")>>, <<"plant_stage", Prim("str")>>,
       <<"planted_at", Opt(Prim("datetime"))>> >>
ToolSlotHints ==
    PointHints \o
    << <<"tool_id", Prim("int")>>, <<"pullout_direction", Opt(Prim("int"))>> >>
CommandHints ==
    << <<"kind", Prim("str")>>, <<"args", DictOf(Prim("str"), Prim("Any"))>> >>
SequenceHints ==
    IdentifiableHints \o
    << <<"args", DictOf(Prim("str"), Prim("Any"))>>, <<"color", Prim("str")>>,
       <<"name", Prim("str")>>, <<"kind", Prim("str")>>,
       <<"body", ListOf(Class("Command"))>> >>
LocationDataHints == << <<"position", Class("Coordinate")>> >>
InformationalSettingsHints ==
    << <<"busy", Prim("bool")>>, <<"locked", Prim("bool")>>, <<"commit", Prim("str")>>,
       <<"firmware_commit", Prim("str")>>, <<"target", Prim("str")>>,
       <<"env", Prim("str")>>, <<"node_name", Prim("str")>>,
       <<"currently_on_beta", Opt(Prim("bool"))>>,
       <<"update_available", Opt(Prim("bool"))>>, <<"memory_usage", Opt(Prim("int"))>>,
       <<"disk_usage", Opt(Prim("int"))>>, <<"soc_temp", Opt(Prim("int"))>>,
       <<"wifi_level", Opt(Prim("int"))>>, <<"controller_version", Prim("str")>>,
       <<"firmware_version", Prim("str")>>, <<"throttled", Prim("str")>>,
       <<"private_ip", Prim("str")>>, <<"sync_status", Prim("str")>>,
       <<"uptime", Opt(Prim("int"))>> >>
PinHints == << <<"mode", Prim("int")>>, <<"value", Prim("float")>> >>
AlertHints ==
    << <<"id", Opt(Prim("int"))>>, <<"created_at", Prim("datetime")>>,
       <<"problem_tag", Prim("str")>>, <<"priority", Prim("int")>>,
       <<"slug", Prim("str")>> >>

ProcessInfoHints == << <<"farmwares", DictOf(Prim("str"), Class("Entity"))>> >>
BotStateTreeHints ==
    << <<"location_data", Class("LocationData")>>,
       <<"informational_settings", Class("InformationalSettings")>>,
       <<"pins", DictOf(Prim("int"), Class("Pin"))>>,
       <<"configuration", Class("Entity")>>,
       <<"user_env", DictOf(Prim("str"), Opt(Prim("str")))>>,
       <<"jobs", DictOf(Prim("str"), Opt(Prim("str")))>>,
       <<"process_info", Class("ProcessInfo")>>,
       <<"alerts", Opt(DictOf(Prim("str"), Class("Alert")))>> >>
Hints(cls) ==
    CASE cls = "Coordinate" -> CoordinateHints
      [] cls = "Identifiable" -> IdentifiableHints
      [] cls = "Point" -> PointHints
      [] cls = "Plant" -> PlantHints
      [] cls = "ToolSlot" -> ToolSlotHints
      [] cls = "Command" -> CommandHints
      [] cls = "Sequence" -> SequenceHints
      [] cls = "LocationData" -> LocationDataHints
      [] cls = "InformationalSettings" -> InformationalSettingsHints
      [] cls = "Pin" -> PinHints
      [] cls = "Alert" -> AlertHints
      [] cls = "ProcessInfo" -> ProcessInfoHints
      [] cls = "BotStateTree" -> BotStateTreeHints
      [] cls = "Entity" -> <<>>

Classes == {"Coordinate", "Identifiable", "Point", "Plant", "ToolSlot", "Command",
            "Sequence", "LocationData", "InformationalSettings", "Pin", "Alert",
            "ProcessInfo", "BotStateTree", "Entity"}

\* The keys of EntityFactory.get_props(), and the shape of one of them.
PropNames(cls) == {Hints(cls)[i][1] : i \in 1..Len(Hints(cls))}
ShapeOf(cls, key) ==
    LET i == CHOOSE j \in 1..Len(Hints(cls)) : Hints(cls)[j][1] = key
    IN Hints(cls)[i][2]

(***************************************************************************)
(* The registry.  reg.f is the set of shapes utils.factories has an entry  *)
(* for, reg.r the set of record types whose EntityFactory.props is filled. *)
(* reg.made tells the function objects apart: for every shape a function   *)
(* was ever made for, n is how many were made and id the one (the id-th    *)
(* made) that utils.factories holds.                                       *)
(* get_factory gives [ok, reg]: whether a function is returned (or         *)
(* TypeError raised), and the registry it leaves.                          *)
(***************************************************************************)
\* factories[expected_type] = factory, once the factories it needs resolved.
Made(made, expected_type) ==
    IF expected_type \in DOMAIN made THEN made[expected_type].n ELSE 0
Store(made, expected_type, id) ==
    [t \in DOMAIN made \cup {expected_type} |->
        IF t = expected_type THEN [n |-> IF id > Made(made, t) THEN id ELSE Made(made, t),
                                   id |-> id]
        ELSE made[t]]
Register(expected_type, needed) ==
    IF needed.ok
    THEN [ok |-> TRUE,
          reg |-> [needed.reg EXCEPT
                     !.f = @ \cup {expected_type},
                     !.made = Store(@, expected_type, Made(@, expected_type) + 1)]]
    ELSE needed

RECURSIVE get_factory(_, _)
RECURSIVE Needed(_, _)

\* Dict[key, val]: the value factory is resolved after the key factory.
DictFactory(expected_type, key) ==
    IF key.ok THEN get_factory(expected_type.val, key.reg) ELSE key

\* The function object is made (not stored yet): one more was made for the
\* shape, utils.factories holds what it held (id 0: nothing).
Create(made, expected_type) ==
    [t \in DOMAIN made \cup {expected_type} |->
        IF t = expected_type
        THEN [n |-> Made(made, t) + 1, id |-> IF t \in DOMAIN made THEN made[t].id ELSE 0]
        ELSE made[t]]

\* A cache that never answers.
NeverCached(expected_type, reg) == FALSE

\* factory = factories.get(expected_type); if factory: return factory
Cached(expected_type, reg) == expected_type \in reg.f

\* The factories the new function closes over are resolved first; a type
\* with no rule raises TypeError.
Needed(expected_type, reg) ==
    CASE expected_type.k \in {"opt", "list"} -> get_factory(expected_type.of, reg)
      [] expected_type.k = "dict" ->
           DictFactory(expected_type, get_factory(expected_type.key, reg))
      [] expected_type.k = "class" -> [ok |-> TRUE, reg |-> reg]
      [] OTHER -> [ok |-> FALSE, err |-> "TypeError", reg |-> reg]

get_factory(expected_type, reg) ==
    IF Cached(expected_type, reg) THEN [ok |-> TRUE, reg |-> reg]
    ELSE Register(expected_type, Needed(expected_type, reg))

\* EntityFactory.get_props: resolves the shape of every declared field, in
\* order, the first time it is called for a record type.
RECURSIVE ResolveHints(_, _, _)
ResolveHints(hints, i, reg) ==
    IF i > Len(hints) THEN reg
    ELSE ResolveHints(hints, i + 1, get_factory(hints[i][2], reg).reg)

get_props(cls, reg) ==
    IF cls \in reg.r THEN reg
    ELSE [ResolveHints(Hints(cls), 1, reg) EXCEPT !.r = @ \cup {cls}]

\* get_factory(cls).__self__.get_props()
FactoryProps(cls, reg) == get_props(cls, get_factory(Class(cls), reg).reg)

(***************************************************************************)
(* Dictionaries are functions from keys to values.                         *)
(***************************************************************************)
Get(d, key) == IF key \in DOMAIN d THEN d[key] ELSE None           \* d.get(key)
Put(d, key, value) ==                                              \* d[key] = value
    [k \in DOMAIN d \cup {key} |-> IF k = key THEN value ELSE d[k]]
Update(d, e) ==                                                    \* d.update(e)
    [k \in DOMAIN d \cup DOMAIN e |-> IF k \in DOMAIN e THEN e[k] ELSE d[k]]
SetDefaults(d, keys) ==                                 \* d.setdefault(key) for each
    [k \in DOMAIN d \cup keys |-> IF k \in DOMAIN d THEN d[k] ELSE None]
Remove(d, key) == [k \in DOMAIN d \ {key} |-> d[k]]                \* del d[key]

(***************************************************************************)
(* The point variants.                                                     *)
(***************************************************************************)
\* __point_types as get_point_type fills it on its first call: the
\* subclasses of Point, transitively, by class name.
PointTypes == {"Plant", "ToolSlot"}
PointFamily == {"Point"} \cup PointTypes

\* get_point_type(pointer_type): __point_types.get(pointer_type) or Point.
get_point_type(pointer_type) ==
    IF pointer_type.t \in {"dict", "list"} THEN Raise("TypeError")  \* unhashable key
    ELSE IF \E c \in PointTypes : pointer_type = Word(c)
         THEN Ok(CHOOSE c \in PointTypes : pointer_type = Word(c))
         ELSE Ok("Point")

get_pointer_type(point_type) ==
    IF point_type = "Point" THEN "GenericPointer" ELSE point_type

\* Point.__new__: the class the instance is made of.
PointNewClass(cls, dict, kwargs) ==
    IF cls = "Point" /\ (Truthy(dict) \/ DOMAIN kwargs # {})
    THEN get_point_type(Get(IF Truthy(dict) THEN dict.d ELSE kwargs, "pointer_type"))
    ELSE Ok(cls)

\* Entity.__new__: the instance dictionary is the mapping passed in when it
\* is not empty, with every declared field defaulted to None.
EntityNew(cls, dict) ==
    SetDefaults(IF Truthy(dict) THEN dict.d ELSE EmptyMap, PropNames(cls))

\* Entity.__init__
EntityInit(d, kwargs) == IF DOMAIN kwargs # {} THEN Update(d, kwargs) ELSE d

\* A field that is None stays None.
KeepNone(d, key, value) == d

\* if self.<key> is None: self.<key> = value
DefaultNone(d, key, value) == IF d[key] = None THEN Put(d, key, value) ELSE d

\* if not self.pointer_type: self.pointer_type = get_pointer_type(type(self))
DefaultPointerType(cls, d) ==
    IF ~Truthy(d["pointer_type"])
    THEN Put(d, "pointer_type", Word(get_pointer_type(cls))) ELSE d

\* Point.__init__ after Entity.__init__ has run.
PointDefaults(cls, d) ==
    DefaultNone(
      DefaultNone(
        DefaultNone(
          DefaultNone(
            DefaultNone(DefaultPointerType(cls, d), "meta", Dict(EmptyMap)),
            "x", PyInt(0)),
          "y", PyInt(0)),
        "z", PyInt(0)),
      "radius", PyFloat(0))

\* The instance dictionary after __new__ and __init__ of class cls.
InstanceDict(cls, d) == IF cls \in PointFamily THEN PointDefaults(cls, d) ELSE d

\* The instance of the class that __new__ made, or the exception it raised.
ConstructAs(made, dict, kwargs, reg) ==
    IF ~made.ok THEN [ok |-> FALSE, err |-> made.err, reg |-> reg]
    ELSE [ok |-> TRUE,
          v |-> Instance(made.v,
                         InstanceDict(made.v, EntityInit(EntityNew(made.v, dict), kwargs))),
          reg |-> FactoryProps(made.v, reg)]

\* cls(__dict__, **kwargs): __new__ and then __init__ of the class made.
\* dict is None (no mapping passed) or a dict; kwargs is the keyword fields.
Construct(cls, dict, kwargs, reg) ==
    ConstructAs(IF cls \in PointFamily THEN PointNewClass(cls, dict, kwargs) ELSE Ok(cls),
                dict, kwargs, reg)

(***************************************************************************)
(* The conversion functions of utils.factories.                            *)
(***************************************************************************)
\* ast.literal_eval(val) of a text.  (The text of a container or of a record
\* is not among the texts of the model.)
literal_eval(val) ==
    CASE val.form = "num" -> Ok(PyInt(val.n))
      [] val = Word("None") -> Ok(None)
      [] val = Word("True") -> Ok(PyBool(TRUE))
      [] val = Word("False") -> Ok(PyBool(FALSE))
      [] val.form = "repr" /\ val.of.t = "float" -> Ok(val.of)
      [] val.form = "repr" /\ val.of.t \in {"datetime", "date", "timedelta"} ->
            Raise("SyntaxError")
      [] val.form = "word" /\ val.w \notin {"", "None", "True", "False"} ->
            Raise("ValueError")             \* a name
      [] val.form = "now" /\ val.q = "" -> Raise("ValueError")
      [] val = Word("") \/ (val.form = "now" /\ val.q # "")
            \/ val.form \in {"in", "ago", "iso", "isodate", "atleast", "atmost"} ->
            Raise("SyntaxError")

\* ast.literal_eval(val) if isinstance(val, str) else val
Literal(val) == IF IsStr(val) THEN literal_eval(val) ELSE Ok(val)

\* str(val)
str(val) ==
    CASE IsStr(val) -> val
      [] val = None -> Word("None")
      [] val.t = "int" -> NumText(val.n)
      [] val.t = "bool" -> Word(IF val.n = 1 THEN "True" ELSE "False")
      [] OTHER -> ReprText(val)

\* int(x) and float(x) of a value that is not a text.
int(x) == IF IsNumber(x) THEN Ok(PyInt(x.n)) ELSE Raise("TypeError")
float(x) == IF IsNumber(x) THEN Ok(PyFloat(x.n)) ELSE Raise("TypeError")

\* float(x) of any value: a text is parsed as a number.
FloatOf(x) ==
    IF IsStr(x)
    THEN CASE x.form = "num" -> Ok(PyFloat(x.n))
           [] x.form = "repr" /\ x.of.t = "float" -> Ok(x.of)
           [] OTHER -> Raise("ValueError")
    ELSE float(x)

\* bool(x), int(x), float(x) of what Literal gave.
BoolOf(x) == IF x.ok THEN Ok(PyBool(Truthy(x.v))) ELSE x
IntOf(x) == IF x.ok THEN int(x.v) ELSE x
FloatOfLiteral(x) == IF x.ok THEN float(x.v) ELSE x

\* factories[Any | bool | str | int | float | date | datetime](val)
ConvertPrim(name, val, utcnow) ==
    CASE name = "Any" -> Ok(val)
      [] name = "bool" -> BoolOf(Literal(val))
      [] name = "str" -> Ok(str(val))
      [] name = "int" -> IntOf(Literal(val))
      [] name = "float" -> FloatOfLiteral(Literal(val))
      [] name = "date" -> parse_date(val, None, utcnow)
      [] name = "datetime" -> parse_datetime(val, None, utcnow)

\* A call that raises err or returns v, leaving the registry as reg.
Raised(err, reg) == [ok |-> FALSE, err |-> err, reg |-> reg]
Returned(v, reg) == [ok |-> TRUE, v |-> v, reg |-> reg]
WithRegistry(c, reg) == IF c.ok THEN Returned(c.v, reg) ELSE Raised(c.err, reg)

(***************************************************************************)
(* Convert(shape, val, reg, utcnow): the function get_factory(shape)       *)
(* returned, applied to val.  The result carries the registry, which the   *)
(* conversion of a record type extends (EntityFactory.get_props).          *)
(***************************************************************************)
RECURSIVE Convert(_, _, _, _)
RECURSIVE ConvertItems(_, _, _, _, _)
RECURSIVE ConvertEntries(_, _, _, _, _, _)
RECURSIVE MakeFields(_, _, _, _, _)

\* [item_factory(item) for item in items], from the i-th item on; c is the
\* conversion of the i-th.
PrependItem(v, rest) ==
    IF rest.ok THEN Returned(<<v>> \o rest.v, rest.reg) ELSE rest
ItemThen(shape, items, i, c, utcnow) ==
    IF c.ok THEN PrependItem(c.v, ConvertItems(shape, items, i + 1, c.reg, utcnow))
    ELSE c
ConvertItems(shape, items, i, reg, utcnow) ==
    IF i > Len(items) THEN Returned(<<>>, reg)
    ELSE ItemThen(shape, items, i, Convert(shape, items[i], reg, utcnow), utcnow)

\* {key_factory(k): value_factory(v) for k, v in d.items()}.  The keys of
\* the model are texts and key_factory is str, which leaves them as they
\* are.  todo is the set of keys not converted yet; a dictionary is iterated
\* in insertion order, which the model does not keep: when several entries
\* fail, the one that raises is fixed by CHOOSE.
EntryThen(shape, d, todo, done, key, c, utcnow) ==
    IF c.ok
    THEN ConvertEntries(shape, d, todo \ {key}, Put(done, key, c.v), c.reg, utcnow)
    ELSE c
ConvertEntry(shape, d, todo, done, key, reg, utcnow) ==
    EntryThen(shape, d, todo, done, key, Convert(shape.val, d[key], reg, utcnow), utcnow)
ConvertEntries(shape, d, todo, done, reg, utcnow) ==
    IF todo = {} THEN Returned(done, reg)
    ELSE ConvertEntry(shape, d, todo, done, CHOOSE k \in todo : TRUE, reg, utcnow)

\* The loop of EntityFactory.make: data[key] = factory(data.get(key)) for
\* every declared field from the i-th on; c is the conversion of the i-th.
\* data is the mapping as the loop leaves it, also when a field raises.
FieldThen(hints, i, data, c, utcnow) ==
    IF c.ok THEN MakeFields(hints, i + 1, Put(data, hints[i][1], c.v), c.reg, utcnow)
    ELSE [ok |-> FALSE, err |-> c.err, data |-> data, reg |-> c.reg]
MakeFields(hints, i, data, reg, utcnow) ==
    IF i > Len(hints) THEN [ok |-> TRUE, data |-> data, reg |-> reg]
    ELSE FieldThen(hints, i, data,
                   Convert(hints[i][2], Get(data, hints[i][1]), reg, utcnow), utcnow)

\* return self.cls(__dict__=data), when no field raised.
MakeInstance(cls, fields) ==
    IF fields.ok THEN Construct(cls, Dict(fields.data), EmptyMap, fields.reg)
    ELSE Raised(fields.err, fields.reg)

\* EntityFactory.make(data)
make(cls, data, reg, utcnow) ==
    IF data.t # "dict" THEN Raised("AttributeError", get_props(cls, reg))  \* no data.get
    ELSE MakeInstance(cls, MakeFields(Hints(cls), 1, data.d, get_props(cls, reg), utcnow))

\* The list and dict factories; x is ast.literal_eval(val) of a text val,
\* and val otherwise.
AsList(items) == IF items.ok THEN Returned(PyList(items.v), items.reg) ELSE items
ConvertList(shape, x, reg, utcnow) ==
    IF ~x.ok THEN Raised(x.err, reg)
    \* (the model passes no dict and no record where a list is declared)
    ELSE IF x.v.t # "list" THEN Raised("TypeError", reg)         \* not iterable
    ELSE AsList(ConvertItems(shape.of, x.v.items, 1, reg, utcnow))
AsDict(entries) == IF entries.ok THEN Returned(Dict(entries.v), entries.reg) ELSE entries
ConvertDict(shape, x, reg, utcnow) ==
    IF ~x.ok THEN Raised(x.err, reg)
    ELSE IF x.v.t # "dict" THEN Raised("AttributeError", reg)    \* no .items()
    ELSE AsDict(ConvertEntries(shape, x.v.d, DOMAIN x.v.d, EmptyMap, reg, utcnow))

Convert(shape, val, reg, utcnow) ==
    CASE shape.k = "prim" -> WithRegistry(ConvertPrim(shape.name, val, utcnow), reg)
      [] shape.k = "opt" ->
            \* lambda val: None if val in (None, 'None') else factory(val),
            \* where factory is the variable of get_factory the lambda itself
            \* is assigned to: on any other value the lambda calls itself
            \* until the interpreter raises RecursionError.
            IF val = None \/ val = Word("None") THEN Returned(None, reg)
            ELSE Raised("RecursionError", reg)
      [] shape.k = "list" -> ConvertList(shape, Literal(val), reg, utcnow)
      [] shape.k = "dict" -> ConvertDict(shape, Literal(val), reg, utcnow)
      [] shape.k = "class" -> make(shape.name, val, reg, utcnow)

(***************************************************************************)
(* Point.apply(updates).  An update is [marker, key, value]: the key of    *)
(* updates is the text marker + key, where marker is "+" (append) or "".   *)
(* updates is the sequence of the items of the dictionary, in its order.   *)
(* The result is the instance dictionary as the call leaves it, also when  *)
(* an update raises.                                                       *)
(***************************************************************************)
Change(marker, key, value) == [marker |-> marker, key |-> key, value |-> value]

\* a + b of data[key] += value, for texts and numbers.  (No list, dict or
\* record is appended to in the model.)
Concat(a, b) ==
    IF b = Word("") THEN a
    ELSE IF a = Word("") THEN b
    ELSE [t |-> "str", form |-> "cat", left |-> a, right |-> b]
Add(a, b) ==
    IF IsStr(a) /\ IsStr(b) THEN Ok(Concat(a, b))
    ELSE IF IsNumber(a) /\ IsNumber(b)
    THEN Ok(IF "float" \in {a.t, b.t} THEN PyFloat(a.n + b.n) ELSE PyInt(a.n + b.n))
    ELSE Raise("TypeError")

\* offset = parse_offset(value); if offset: value = dump_datetime(utc_now() + offset)
OffsetValue(value, offset, utcnow) ==
    IF ~offset.ok THEN offset
    ELSE IF Truthy(offset.v) THEN Ok(dump_datetime(DateTime(utcnow + offset.v.n)))
    ELSE Ok(value)
UpdateValue(value, utcnow) ==
    IF IsStr(value) THEN OffsetValue(value, parse_offset(value, FALSE), utcnow)
    ELSE Ok(value)

\* A rule that sends only the undeclared keys to the metadata.
UndeclaredRule(key, props) == key \notin props

\* ismeta = (key in ('meta', 'id')) or (key not in props)
RoutedToMeta(key, props) == key \in {"meta", "id"} \/ key \notin props

\* data[key] += value
Appended(data, key, sum) ==
    IF sum.ok THEN Ok(Put(data, key, sum.v)) ELSE sum
\* The three ways an update is written to data.
Write(data, update, value, ismeta) ==
    IF update.marker = "+"
    THEN IF update.key \in DOMAIN data THEN Appended(data, update.key, Add(data[update.key], value))
         ELSE Raise("KeyError")
    ELSE IF value = None /\ ismeta
    THEN IF update.key \in DOMAIN data THEN Ok(Remove(data, update.key))
         ELSE Raise("KeyError")
    ELSE Ok(Put(data, update.key, value))

\* Every update written to the instance dictionary itself.
WriteToRecord(d, update, value, ismeta) == Write(d, update, value, ismeta)

\* data = self.meta if ismeta else self.__dict__: the instance dictionary
\* after the write, or what the write raised.
InMetaBucket(d, written) ==
    IF written.ok THEN Ok(Put(d, "meta", Dict(written.v))) ELSE written
WriteTo(d, update, value, ismeta) ==
    IF ~ismeta THEN Write(d, update, value, FALSE)
    ELSE IF d["meta"].t # "dict" THEN Raise("TypeError")     \* no item assignment
    ELSE InMetaBucket(d, Write(d["meta"].d, update, value, TRUE))

\* One turn of the loop over updates.items().
ApplyUpdate(d, props, update, value) ==
    IF value.ok THEN WriteTo(d, update, value.v, RoutedToMeta(update.key, props))
    ELSE value

\* The loop from the i-th update on; the log message at the end is the
\* JSON text of the record, which every value of the model has.
RECURSIVE ApplyFrom(_, _, _, _, _)
UpdateThen(d, props, updates, i, written, utcnow) ==
    IF written.ok THEN ApplyFrom(written.v, props, updates, i + 1, utcnow)
    ELSE [ok |-> FALSE, err |-> written.err, d |-> d]
ApplyFrom(d, props, updates, i, utcnow) ==
    IF i > Len(updates) THEN [ok |-> TRUE, d |-> d]
    ELSE UpdateThen(d, props, updates, i,
                    ApplyUpdate(d, props, updates[i], UpdateValue(updates[i].value, utcnow)),
                    utcnow)

\* self.apply(updates) of a point self
apply(self, updates, utcnow) == ApplyFrom(self.d, PropNames(self.cls), updates, 1, utcnow)

(***************************************************************************)
(* PointQuery.  A clause is [marker, key, value]: the clause key is the    *)
(* text marker + key, where marker is "!" (negation) or "".  A predicate   *)
(* closure is the record of what it captured: kind "date" (op, date),      *)
(* "num" (op, number) or "ne" (value), and get, the field it reads.        *)
(***************************************************************************)
Clause(marker, key, value) == [marker |-> marker, key |-> key, value |-> value]

\* PointQuery.__rxdate.fullmatch(value.strip()): an optional qualifier, then
\* 'N word ago', 'in N word', 'now' or an ISO instant with a fraction part.
rxdate(value) ==
    value.form \in {"ago", "in", "now"} \/ (value.form = "iso" /\ value.frac >= 1)

\* match.group(2) of __rxdate: the text without its qualifier.
rxdate_instant(value) == [value EXCEPT !.q = ""]

\* PointQuery.__rxnum.fullmatch(value.strip())
rxnum(value) == value.form \in {"atleast", "atmost"}

\* operator.lt, le, gt, ge
Compare(op, a, b) ==
    CASE op = "lt" -> a < b
      [] op = "le" -> a <= b
      [] op = "gt" -> a > b
      [] op = "ge" -> a >= b

\* The operator chosen for a qualified date ('before' | 'after') and for a
\* threshold ('least' | 'most').
DateOp(qualifier, negate) ==
    IF qualifier = "before" THEN (IF ~negate THEN "lt" ELSE "ge")
    ELSE (IF ~negate THEN "gt" ELSE "le")
NumOp(which, negate) ==
    IF which = "atleast" THEN (IF ~negate THEN "ge" ELSE "lt")
    ELSE (IF ~negate THEN "le" ELSE "gt")

\* A routing rule that does not reserve the key id for the metadata.
DeclaredIdRule(key, props) == key = "meta" \/ key \notin props

\* negate, ismeta and get of the loop body.
Negate(clause) == clause.marker = "!"
IsMeta(key, props) == key \in {"meta", "id"} \/ key \notin props
Getter(clause, props) == [ismeta |-> IsMeta(clause.key, props), key |-> clause.key]

\* self.predicates.append(p)
AddPredicate(self, p) == [self EXCEPT !.predicates = Append(@, p)]

\* The end of the loop body: value is a literal.
AddLiteral(self, props, clause, value) ==
    IF Negate(clause)
    THEN AddPredicate(self, [kind |-> "ne", get |-> Getter(clause, props), value |-> value])
    ELSE IF IsMeta(clause.key, props)
    THEN [self EXCEPT !.filter =
            Put(@, "meta", Dict(Put(self.filter["meta"].d, clause.key, value)))]
    ELSE [self EXCEPT !.filter = Put(@, clause.key, value)]

\* Special number handling of a text value, and what follows it.
AddNumber(self, props, clause, value) ==
    IF rxnum(value)
    THEN AddPredicate(self, [kind |-> "num", get |-> Getter(clause, props),
                             op |-> NumOp(value.form, Negate(clause)),
                             number |-> PyFloat(value.n)])
    ELSE AddLiteral(self, props, clause, value)

\* Special date handling, once parse_datetime(match.group(2)) gave date.
AddDate(self, props, clause, date) ==
    IF ~date.ok THEN date
    ELSE IF clause.value.q = ""
    THEN \* exact date match: the value becomes the normalized date
         Ok(AddNumber(self, props, clause, dump_datetime(date.v)))
    ELSE Ok(AddPredicate(self, [kind |-> "date", get |-> Getter(clause, props),
                                op |-> DateOp(clause.value.q, Negate(clause)),
                                date |-> date.v]))

\* One pass of the loop of PointQuery.__init__; self holds the filter and
\* the predicates built so far.
CompileClause(self, props, clause, utcnow) ==
    IF ~IsStr(clause.value) THEN Ok(AddLiteral(self, props, clause, clause.value))
    ELSE IF rxdate(clause.value)
    THEN AddDate(self, props, clause,
                 parse_datetime(rxdate_instant(clause.value), None, utcnow))
    ELSE Ok(AddNumber(self, props, clause, clause.value))

RECURSIVE CompileClauses(_, _, _, _, _)
ClauseThen(step, props, clauses, i, utcnow) ==
    IF step.ok THEN CompileClauses(step.v, props, clauses, i + 1, utcnow) ELSE step
CompileClauses(self, props, clauses, i, utcnow) ==
    IF i > Len(clauses) THEN Ok(self)
    ELSE ClauseThen(CompileClause(self, props, clauses[i], utcnow), props, clauses, i,
                    utcnow)

\* self.predicates and self.filter before the loop.
NewQuery(point_type) ==
    [predicates |-> <<>>,
     filter |-> [pointer_type |-> Word(get_pointer_type(point_type)),
                 meta |-> Dict(EmptyMap)]]

\* if not self.filter['meta']: del self.filter['meta']
DropEmptyMeta(self) ==
    [self EXCEPT !.filter = IF ~Truthy(@["meta"]) THEN Remove(@, "meta") ELSE @]

QueryBuilt(built, reg) ==
    IF built.ok THEN Returned(DropEmptyMeta(built.v), reg) ELSE Raised(built.err, reg)

\* PointQuery(point_type, query): the attributes of the object constructed.
\* Only predicates and filter are assigned; factory stays a local variable.
PointQueryInit(point_type, clauses, reg, utcnow) ==
    QueryBuilt(CompileClauses(NewQuery(point_type), PropNames(point_type), clauses, 1,
                              utcnow),
               FactoryProps(point_type, reg))

(***************************************************************************)
(* The local predicates and PointQuery.execute.                            *)
(***************************************************************************)
\* v[key]: Entity defines no __getitem__, so only a dictionary answers.
Subscript(v, key) ==
    IF v.t = "dict"
    THEN (IF key \in DOMAIN v.d THEN Ok(v.d[key]) ELSE Raise("KeyError"))
    ELSE Raise("TypeError")

\* get(v): v['meta'][key] if ismeta else v[key]
SubscriptOf(meta, key) == IF meta.ok THEN Subscript(meta.v, key) ELSE meta
GetField(get, v) ==
    IF get.ismeta THEN SubscriptOf(Subscript(v, "meta"), get.key)
    ELSE Subscript(v, get.key)

\* op(parse_datetime(get(v)), date) and op(float(get(v)), number), once the
\* left operand is there; comparing None with a datetime is a TypeError.
CompareDate(p, parsed) ==
    IF ~parsed.ok THEN parsed
    ELSE IF parsed.v.t # "datetime" THEN Raise("TypeError")
    ELSE Ok(Compare(p.op, parsed.v.n, p.date.n))
CompareNumber(p, number) ==
    IF number.ok THEN Ok(Compare(p.op, number.v.n, p.number.n)) ELSE number

\* The body of a predicate closure, once get(v) gave field.
PredicateOn(p, field, utcnow) ==
    IF ~field.ok THEN field
    ELSE CASE p.kind = "ne" -> Ok(~PyEq(field.v, p.value))
           [] p.kind = "date" -> CompareDate(p, parse_datetime(field.v, None, utcnow))
           [] p.kind = "num" -> CompareNumber(p, FloatOf(field.v))

\* predicate(point)
Predicate(p, point, utcnow) == PredicateOn(p, GetField(p.get, point), utcnow)

\* for predicate in self.predicates: if not predicate(point): continue
\* The continue statement resumes the loop it stands in, the one over the
\* predicates, so the loop only ends early when a predicate raises.  The
\* result lists what the predicates answered.
RECURSIVE RunPredicates(_, _, _, _, _)
PredicateThen(kept, predicates, i, point, verdicts, utcnow) ==
    IF kept.ok
    THEN RunPredicates(predicates, i + 1, point, Append(verdicts, kept.v), utcnow)
    ELSE kept
RunPredicates(predicates, i, point, verdicts, utcnow) ==
    IF i > Len(predicates) THEN Ok(verdicts)
    ELSE PredicateThen(Predicate(predicates[i], point, utcnow), predicates, i, point,
                       verdicts, utcnow)

\* The loop of execute over app.search_points(self.filter), from record i
\* on.  self.factory is read for each record: PointQuery.__init__ keeps the
\* factory in a local variable and the class only annotates the attribute.
RECURSIVE ExecuteFrom(_, _, _, _, _, _)
KeepThen(self, records, i, result, point, run, utcnow) ==
    IF ~run.ok THEN Raised(run.err, point.reg)
    ELSE \* result.append(point)
         ExecuteFrom(self, records, i + 1, Append(result, point.v), point.reg, utcnow)
PointThen(self, records, i, result, point, utcnow) ==
    IF ~point.ok THEN point
    ELSE KeepThen(self, records, i, result, point,
                  RunPredicates(self.predicates, 1, point.v, <<>>, utcnow), utcnow)
ExecuteFrom(self, records, i, result, reg, utcnow) ==
    IF i > Len(records) THEN Returned(result, reg)
    ELSE IF "factory" \notin DOMAIN self THEN Raised("AttributeError", reg)
    ELSE PointThen(self, records, i, result,
                   Convert(self.factory, records[i], reg, utcnow), utcnow)

\* PointQuery.execute, records being what app.search_points(self.filter)
\* answered.
execute(self, records, reg, utcnow) == ExecuteFrom(self, records, 1, <<>>, reg, utcnow)

(***************************************************************************)
(* The inputs of the model.                                                *)
(***************************************************************************)
Qualifiers == {"", "before", "after"}
Counts == 0..MaxCount
UnitWords == OffsetUnits(FALSE) \cup {"fortnight"}
Earlier == StartTime - UnitSeconds["days"]      \* an instant before StartTime

\* Texts of the relative-date grammar and of the threshold grammar.
DateTexts ==
    {NowText(q) : q \in Qualifiers}
    \cup {InText("", n, u, pl) : n \in Counts, u \in UnitWords, pl \in {FALSE}}
    \cup {AgoText(q, n, "day", TRUE) : q \in Qualifiers, n \in Counts}
    \cup {IsoText(q, Earlier, 3) : q \in Qualifiers}
NumTexts == {AtLeastText(n) : n \in Counts} \cup {AtMostText(n) : n \in Counts}
Markers == {"", "!"}

\* The clauses compiled: literals on declared, reserved and undeclared keys,
\* dates and thresholds, each negated and not.
LiteralClauses ==
    {Clause(m, k, v) : m \in Markers,
                       k \in {"pointer_type", "name", "id", "meta", "color", "plant_stage"},
                       v \in {Word("Plant"), Word("Tomato")}}
    \cup {Clause(m, "x", PyInt(3)) : m \in Markers}
    \cup {Clause("", "updated_at", IsoText("", Earlier, 0))}
DateClauses ==
    {Clause(m, "updated_at", v) : m \in Markers, v \in DateTexts}
    \cup {Clause(m, "sown", AgoText(q, 1, "day", TRUE)) : m \in Markers, q \in Qualifiers}
NumClauses == {Clause(m, k, v) : m \in Markers, k \in {"radius", "height"}, v \in NumTexts}
Clauses == LiteralClauses \cup DateClauses \cup NumClauses

\* The clause lists: empty, one clause, or one literal clause with one of a
\* few others before or after it.
ContextClauses ==
    {Clause("", "pointer_type", Word("Bogus")), Clause("", "color", Word("red")),
     Clause("!", "name", Word("Tomato"))}
ShortLists == {<<>>} \cup {<<c>> : c \in Clauses}
PairLists ==
    {<<c, d>> : c \in ContextClauses, d \in LiteralClauses}
    \cup {<<d, c>> : c \in ContextClauses, d \in LiteralClauses}

\* A raw value a shape converts without raising.
RECURSIVE Sample(_)
HintOf(hints, key) == CHOOSE h \in {hints[i] : i \in 1..Len(hints)} : h[1] = key
SampleOf(hints) ==
    [key \in {hints[i][1] : i \in 1..Len(hints)} |-> Sample(HintOf(hints, key)[2])]
Sample(shape) ==
    CASE shape.k = "prim" ->
            (CASE shape.name = "int" -> NumText(1)
               [] shape.name = "float" -> PyInt(1)
               [] shape.name = "bool" -> Word("True")
               [] shape.name = "str" -> Word("a")
               [] shape.name = "datetime" -> IsoText("", Earlier, 3)
               [] shape.name = "date" -> IsoDateText(DayOf(Earlier))
               [] shape.name = "Any" -> PyInt(1))
      [] shape.k = "opt" -> None
      [] shape.k = "list" -> PyList(<<Sample(shape.of)>>)
      [] shape.k = "dict" -> Dict([key \in {"a"} |-> Sample(shape.val)])
      [] shape.k = "class" -> Dict(SampleOf(Hints(shape.name)))

\* The raw records of the end-to-end scenario of the design, and a complete
\* raw Plant record.
ScenarioPlant ==
    Dict([id |-> PyInt(1), pointer_type |-> Word("Plant"), x |-> NumText(10),
          y |-> NumText(20), z |-> None])
ScenarioPointer ==
    Dict([id |-> PyInt(2), pointer_type |-> Word("GenericPointer"), x |-> PyInt(0),
          y |-> PyInt(0), z |-> PyInt(0)])
CompletePlant ==
    Dict([Sample(Class("Plant")).d EXCEPT !["pointer_type"] = Word("Plant"),
                                          !["name"] = Word("Tomato")])
RawRecords == {ScenarioPlant, ScenarioPointer, CompletePlant}
\* What the remote search answers: up to MaxRemote records, none twice.
SearchResults ==
    {s \in UNION {[1..n -> RawRecords] : n \in 0..MaxRemote} :
        \A i, j \in DOMAIN s : s[i] = s[j] => i = j}

\* Mappings and keyword fields a point is constructed from.
Maps(keys, values) == UNION {[ks -> values] : ks \in SUBSET keys}
PointerTypes == {Word("Plant"), Word("ToolSlot"), Word("Bogus"), Word("")}
ConstructDicts ==
    {None} \cup {Dict(Update(p, i)) : p \in Maps({"pointer_type"}, PointerTypes),
                                     i \in Maps({"id"}, {PyInt(1)})}
ConstructKwargs ==
    {Update(p, n) : p \in Maps({"pointer_type"}, {Word("Plant"), Word("Bogus")}),
                    n \in Maps({"name"}, {Word("a")})}
    \cup {[name |-> Word("a"), meta |-> Dict([color |-> Word("red")])]}

\* The updates applied to a point: one or two items, in dictionary order.
Updates ==
    {<<>>,
     <<Change("", "name", Word("b"))>>,
     <<Change("", "name", None)>>,
     <<Change("", "x", PyInt(1))>>,
     <<Change("", "id", PyInt(5))>>,
     <<Change("", "id", None)>>,
     <<Change("", "meta", Dict(EmptyMap))>>,
     <<Change("", "color", Word("blue"))>>,
     <<Change("", "color", None)>>,
     <<Change("+", "name", Word("x"))>>,
     <<Change("+", "x", PyInt(1))>>,
     <<Change("+", "color", Word("x"))>>,
     <<Change("", "planted_at", NowText(""))>>,
     <<Change("", "note", InText("", MaxCount, "day", FALSE))>>,
     <<Change("", "planted_at", AgoText("", MaxCount, "year", TRUE))>>,
     <<Change("", "name", Word("b")), Change("", "size", None)>>,
     <<Change("", "color", Word("blue")), Change("", "name", Word("b"))>>}

\* Raw data converted: None, a complete mapping of a record type, and that
\* mapping with one declared field absent, None or the text '1'.
ConvertClasses == {"Coordinate", "Pin", "Command", "LocationData", "Alert", "Sequence",
                   "InformationalSettings", "Point", "Plant"}
Variants(cls, full) ==
    {None, Dict(full)}
    \cup {Dict(Remove(full, key)) : key \in DOMAIN full}
    \cup {Dict(Put(full, key, None)) : key \in DOMAIN full}
    \cup {Dict(Put(full, key, NumText(1))) : key \in DOMAIN full}
    \cup (IF cls \in PointFamily THEN {ScenarioPlant, ScenarioPointer} ELSE {})
ConvertData(cls) == Variants(cls, Sample(Class(cls)).d)

\* What device.get_bot_state() answers: a state tree whose informational
\* settings report a sync status (or none) and a memory usage (or none), or
\* nothing at all.
BotState(status, memory) ==
    Dict([location_data |-> Sample(Class("LocationData")),
          informational_settings |->
              Dict([Sample(Class("InformationalSettings")).d EXCEPT
                        !["sync_status"] = status, !["memory_usage"] = memory]),
          pins |-> Dict(EmptyMap),
          configuration |-> Dict(EmptyMap),
          user_env |-> Dict(EmptyMap),
          jobs |-> Dict(EmptyMap),
          process_info |-> Dict([farmwares |-> Dict(EmptyMap)]),
          alerts |-> None])
DeviceStates ==
    {None} \cup {BotState(status, memory) :
                    status \in {Word("synced"), Word("sync_error"), Word("syncing"), None},
                    memory \in {None, PyInt(1)}}

\* The shapes resolved: record types, containers, a cached primitive, and
\* shapes with a type no factory exists for.
ResolveShapes ==
    {Class("Coordinate"), Class("Plant"), Prim("int"), ListOf(Class("Command")),
     DictOf(Prim("str"), Prim("Any")), Opt(Prim("int")), Other("complex"),
     ListOf(Other("complex")), Opt(Other("complex")),
     DictOf(ListOf(Prim("int")), Other("complex"))}

Requests ==
    {[op |-> "query", point_type |-> t, query |-> q] : t \in PointFamily, q \in ShortLists}
    \cup {[op |-> "query", point_type |-> "Plant", query |-> q] : q \in PairLists}
    \cup {[op |-> "construct", cls |-> c, dict |-> d, kwargs |-> k] :
            c \in PointFamily, d \in ConstructDicts, k \in ConstructKwargs}
    \cup {[op |-> "construct", cls |-> c, dict |-> d, kwargs |-> k] :
            c \in {"Coordinate", "Command"}, d \in {None, Dict([x |-> PyInt(1)])},
            k \in {EmptyMap, [kind |-> Word("a")]}}
    \cup UNION {{[op |-> "convert", shape |-> Class(c), data |-> d] : d \in ConvertData(c)} :
                c \in ConvertClasses}
    \cup {[op |-> "resolve", shape |-> t] : t \in ResolveShapes}
    \cup {[op |-> "sync", debug |-> b] : b \in BOOLEAN}

(***************************************************************************)
(* The state machine.  A client makes the calls of its request against the *)
(* module state (the clock, the registry) and the PointQuery it built.     *)
(* last is the latest call: its name, the clock it read, its argument and  *)
(* what it returned or raised.                                             *)
(***************************************************************************)
NoQuery == None
Outcome(r) == IF r.ok THEN Ok(r.v) ELSE Raise(r.err)
Registry == [f |-> factories, r |-> resolved, made |-> funcs]

\* The effect of a call on the registry, and its record in last.
Called(op, arg, r) ==
    /\ factories' = r.reg.f
    /\ funcs' = r.reg.made
    /\ resolved' = r.reg.r
    /\ last' = [op |-> op, at |-> now, arg |-> arg, out |-> Outcome(r)]

\* No thread is inside get_factory.
Callers == 1 .. MaxCallers
\* The Farmware object, no sync() call made: debug is set by the
\* constructor (test mode), cnt counts the polls of the call, issued the
\* device.sync() commands, sync is the status polled last.
Farmware(debug) ==
    [debug |-> debug, pc |-> "idle", called |-> FALSE, cnt |-> 0, issued |-> 0,
     sync |-> None, out |-> Ok(None)]

\* The client holds no record.
NoPoint == [v |-> None, applied |-> 0, shared |-> FALSE]

\* The record a call returned replaces the one the client held.  shared:
\* the instance dictionary of the record is the mapping the client passed
\* (self.__dict__ = __dict__ for a mapping that is not empty).
Holds(r, shared) ==
    held' = IF r.ok THEN [v |-> r.v, applied |-> 0, shared |-> shared]
             ELSE [held EXCEPT !.shared = FALSE]
\* The mapping passed, as the call leaves it.
Passed(r, mapping) ==
    raw' = IF r.ok /\ Truthy(mapping) THEN Dict(r.v.d) ELSE mapping

Outside == [c \in Callers |-> [pc |-> "out", calls |-> 0, factory |-> 0, out |-> Ok(None)]]

Init ==
    /\ now = StartTime
    /\ factories = InitialFactories
    /\ funcs = InitialMade
    /\ resolved = {}
    /\ pointQuery = NoQuery
    /\ request \in Requests
    /\ last = [op |-> "none", at |-> StartTime, arg |-> None, out |-> Ok(None)]
    /\ callers = Outside
    /\ held = NoPoint
    /\ raw = None
    /\ farmware = Farmware(request.op = "sync" /\ request.debug)

\* pointQuery = PointQuery(point_type, query)
Compiled(r) ==
    /\ pointQuery' = IF r.ok THEN r.v ELSE pointQuery
    /\ Called("compile", None, r)
Compile ==
    /\ request.op = "query"
    /\ Compiled(PointQueryInit(request.point_type, request.query, Registry, now))
    /\ UNCHANGED <<now, request, callers, held, raw, farmware>>

\* pointQuery.execute(), where app.search_points answers records
Execute ==
    /\ pointQuery # NoQuery
    /\ \E records \in SearchResults :
         Called("execute", records, execute(pointQuery, records, Registry, now))
    /\ UNCHANGED <<now, pointQuery, request, callers, held, raw, farmware>>

\* predicate(point) for the predicates of pointQuery, as the loop of execute
\* calls them: point is a raw record, or the record the factory of the point
\* type makes of it.
Verdicts(predicates, point, utcnow) ==
    IF point.ok
    THEN WithRegistry(RunPredicates(predicates, 1, point.v, <<>>, utcnow), point.reg)
    ELSE point
PointOf(typed, point_type, data, reg, utcnow) ==
    IF typed THEN Convert(Class(point_type), data, reg, utcnow) ELSE Returned(data, reg)
CallPredicates ==
    /\ pointQuery # NoQuery
    /\ \E data \in RawRecords, typed \in BOOLEAN :
         Called("predicates", [data |-> data, typed |-> typed],
                Verdicts(pointQuery.predicates,
                         PointOf(typed, request.point_type, data, Registry, now), now))
    /\ UNCHANGED <<now, pointQuery, request, callers, held, raw, farmware>>

\* cls(dict, **kwargs) for a point class
Constructed(r) ==
    /\ Called("construct", None, r)
    /\ Holds(r, Truthy(request.dict))
    /\ Passed(r, request.dict)
NewPoint ==
    /\ request.op = "construct"
    /\ Constructed(Construct(request.cls, request.dict, request.kwargs, Registry))
    /\ UNCHANGED <<now, pointQuery, request, callers, farmware>>

\* point.apply(updates) on the point the client holds
Applied(updates, r) ==
    /\ held' = [held EXCEPT !.v = Instance(held.v.cls, r.d), !.applied = @ + 1]
    /\ raw' = IF held.shared THEN Dict(r.d) ELSE raw
    /\ last' = [op |-> "apply", at |-> now, arg |-> [updates |-> updates, self |-> held.v],
                out |-> IF r.ok THEN Ok(None) ELSE Raise(r.err)]
Apply ==
    /\ held.v # None
    /\ held.v.cls \in PointFamily
    /\ held.applied < MaxApplies
    /\ \E updates \in Updates : Applied(updates, apply(held.v, updates, now))
    /\ UNCHANGED <<now, factories, funcs, resolved, pointQuery, request, callers, farmware>>

\* deserialize(typ, data): get_factory(typ)(data)
deserialize(typ, data, factory, utcnow) ==
    IF factory.ok THEN Convert(typ, data, factory.reg, utcnow) ELSE factory
\* data as make leaves it: the fields converted before one raised, or the
\* instance dictionary of the record made of it.
Adopted(made, data) == IF made.ok THEN Dict(made.v.d) ELSE Dict(data)
DataOf(cls, fields) ==
    IF fields.ok
    THEN Adopted(Construct(cls, Dict(fields.data), EmptyMap, fields.reg), fields.data)
    ELSE Dict(fields.data)
DataLeft(cls, data, reg, utcnow) ==
    IF data.t = "dict"
    THEN DataOf(cls, MakeFields(Hints(cls), 1, data.d, get_props(cls, reg), utcnow))
    ELSE data
Deserialized(r) ==
    /\ Called("convert", None, r)
    /\ Holds(r, TRUE)
Deserialize ==
    /\ request.op = "convert"
    /\ Deserialized(deserialize(request.shape, request.data,
                                get_factory(request.shape, Registry), now))
    /\ raw' = DataLeft(request.shape.name, request.data, Registry, now)
    /\ UNCHANGED <<now, pointQuery, request, callers, farmware>>

\* get_factory(expected_type): the function object returned is the one
\* utils.factories holds when the call ends.
Function(expected_type, id) == [t |-> "function", shape |-> expected_type, id |-> id]
FunctionOf(expected_type, r) ==
    IF r.ok THEN Returned(Function(expected_type, r.reg.made[expected_type].id), r.reg)
    ELSE r
Resolve ==
    /\ request.op = "resolve"
    /\ Called("resolve", [cached |-> Cached(request.shape, Registry)],
              FunctionOf(request.shape, get_factory(request.shape, Registry)))
    /\ UNCHANGED <<now, pointQuery, request, callers, held, raw, farmware>>

(***************************************************************************)
(* Farmware.sync().  The module imports time and then everything of        *)
(* datetime, which exports a class named time: the name time in the module *)
(* is that class, and it has no attribute sleep.                           *)
(***************************************************************************)
\* time.sleep(seconds), the time given in milliseconds
sleep(ms) == Raise("AttributeError")

\* range(start, stop)
range(start, stop) == start .. stop - 1
Polls == range(1, 30)

SyncError == [ok |-> FALSE, err |-> "ValueError", msg |-> "Sync error"]
SyncTimeout == [ok |-> FALSE, err |-> "ValueError", msg |-> "Sync timeout"]

\* if not self.debug: time.sleep(1); device.sync()
Started(debug, slept) ==
    IF debug THEN [pc |-> "loop", issued |-> 0, out |-> Ok(None)]
    ELSE IF slept.ok THEN [pc |-> "loop", issued |-> 1, out |-> Ok(None)]
    ELSE [pc |-> "idle", issued |-> 0, out |-> slept]
Starting(step) ==
    farmware' = [farmware EXCEPT !.called = TRUE, !.cnt = 0, !.sync = None,
                                 !.pc = step.pc, !.issued = step.issued, !.out = step.out]
SyncCall ==
    /\ request.op = "sync"
    /\ farmware.pc = "idle"
    /\ Starting(Started(farmware.debug, sleep(1000)))
    /\ UNCHANGED <<now, factories, funcs, resolved, pointQuery, request, last, callers, held,
                   raw>>

\* self.bot_state(): deserialize(BotStateTree, device.get_bot_state())
bot_state(state, reg, utcnow) ==
    deserialize(Class("BotStateTree"), state, get_factory(Class("BotStateTree"), reg), utcnow)

\* One turn of the loop, cnt its number, after the status was read: break,
\* raise, or sleep and go on (the else branch after the last turn).
AfterSleep(cnt, slept) ==
    IF ~slept.ok THEN [pc |-> "idle", out |-> slept]
    ELSE IF cnt + 1 \in Polls THEN [pc |-> "loop", out |-> Ok(None)]
    ELSE [pc |-> "idle", out |-> SyncTimeout]
Turn(cnt, sync) ==
    IF PyEq(sync, Word("synced")) THEN [pc |-> "idle", out |-> Ok(None)]
    ELSE IF PyEq(sync, Word("sync_error")) THEN [pc |-> "idle", out |-> SyncError]
    ELSE AfterSleep(cnt, sleep(500))
\* self.bot_state().informational_settings.sync_status
StatusOf(r) == IF r.ok THEN r.v.d["informational_settings"].d["sync_status"] ELSE None
Polled(cnt, r) ==
    IF r.ok THEN Turn(cnt, StatusOf(r)) ELSE [pc |-> "idle", out |-> Raise(r.err)]
Turned(cnt, r, step) ==
    farmware' = [farmware EXCEPT !.cnt = cnt, !.sync = StatusOf(r),
                                 !.pc = step.pc, !.out = step.out]
PollThen(state, r) ==
    /\ Called("bot_state", state, r)
    /\ Turned(farmware.cnt + 1, r, Polled(farmware.cnt + 1, r))
Poll ==
    /\ farmware.pc = "loop"
    /\ farmware.cnt + 1 \in Polls
    /\ \E state \in DeviceStates : PollThen(state, bot_state(state, Registry, now))
    /\ UNCHANGED <<now, pointQuery, request, callers, held, raw>>

\* Time passes.
Tick ==
    /\ now < StartTime + MaxTicks
    /\ now' = now + 1
    /\ UNCHANGED <<factories, funcs, resolved, pointQuery, request, last, callers, held, raw, farmware>>

Next ==
    Compile \/ Execute \/ CallPredicates \/ NewPoint \/ Apply \/ Deserialize \/ Resolve
    \/ SyncCall \/ Poll \/ Tick

Spec == Init /\ [][Next]_vars

(***************************************************************************)
(* Threads calling get_factory(request.shape) at the same time.  The       *)
(* interpreter may switch threads between any two statements, so a call is *)
(* four steps: the lookup in utils.factories, making the function, storing *)
(* it and returning it.  out is what the thread's last call returned.      *)
(***************************************************************************)
ConcurrentInit ==
    /\ now = StartTime
    /\ factories = InitialFactories
    /\ funcs = InitialMade
    /\ resolved = {}
    /\ pointQuery = NoQuery
    /\ request \in {r \in Requests : r.op = "resolve"}
    /\ last = [op |-> "none", at |-> StartTime, arg |-> None, out |-> Ok(None)]
    /\ callers = Outside
    /\ held = NoPoint
    /\ raw = None
    /\ farmware = Farmware(FALSE)

\* factory = factories.get(expected_type); if factory: return factory
Lookup(c) ==
    /\ callers[c].pc = "out"
    /\ callers[c].calls < MaxCalls
    /\ callers' = [callers EXCEPT
            ![c].calls = @ + 1,
            ![c].pc = IF Cached(request.shape, Registry) THEN "out" ELSE "miss",
            ![c].out = IF Cached(request.shape, Registry)
                       THEN Ok(Function(request.shape, funcs[request.shape].id))
                       ELSE Ok(None)]
    /\ UNCHANGED <<now, factories, funcs, resolved, pointQuery, request, last, held, raw, farmware>>

\* The branch of the type makes the function (or raises TypeError).
FactoryMade(c, needed) ==
    /\ factories' = needed.reg.f
    /\ resolved' = needed.reg.r
    /\ funcs' = IF needed.ok THEN Create(needed.reg.made, request.shape) ELSE needed.reg.made
    /\ callers' = [callers EXCEPT
            ![c].pc = IF needed.ok THEN "made" ELSE "out",
            ![c].factory = IF needed.ok THEN Made(needed.reg.made, request.shape) + 1 ELSE 0,
            ![c].out = IF needed.ok THEN Ok(None) ELSE Raise(needed.err)]
Make(c) ==
    /\ callers[c].pc = "miss"
    /\ FactoryMade(c, Needed(request.shape, Registry))
    /\ UNCHANGED <<now, pointQuery, request, last, held, raw, farmware>>

\* factories[expected_type] = factory
StoreFactory(c) ==
    /\ callers[c].pc = "made"
    /\ factories' = factories \cup {request.shape}
    /\ funcs' = Store(funcs, request.shape, callers[c].factory)
    /\ callers' = [callers EXCEPT ![c].pc = "stored"]
    /\ UNCHANGED <<now, resolved, pointQuery, request, last, held, raw, farmware>>

\* return factory
Return(c) ==
    /\ callers[c].pc = "stored"
    /\ callers' = [callers EXCEPT ![c].pc = "out",
                                  ![c].out = Ok(Function(request.shape, callers[c].factory))]
    /\ UNCHANGED <<now, factories, funcs, resolved, pointQuery, request, last, held, raw, farmware>>

ConcurrentNext ==
    \E c \in Callers : Lookup(c) \/ Make(c) \/ StoreFactory(c) \/ Return(c)

ConcurrentSpec == ConcurrentInit /\ [][ConcurrentNext]_vars

(***************************************************************************)
(* What the claims say, over the latest call.                              *)
(***************************************************************************)
CompileReturned == last.op = "compile" /\ last.out.ok
Plan == last.out.v
Query == request.query

\* Clause i is the only clause of the list on its key.
KeyOnce(i) == \A j \in 1..Len(Query) : Query[j].key = Query[i].key => j = i

\* The grammar a clause value matches.
IsDateValue(v) == IsStr(v) /\ rxdate(v)
IsThreshold(v) == IsStr(v) /\ ~rxdate(v) /\ rxnum(v)
IsLiteralValue(v) == ~IsDateValue(v) /\ ~IsThreshold(v)

\* The places of a key in a server-side filter.
TopLevel(f, key, value) == key \in DOMAIN f /\ f[key] = value
UnderMeta(f, key, value) ==
    "meta" \in DOMAIN f /\ key \in DOMAIN f["meta"].d /\ f["meta"].d[key] = value
AtTop(f, key) == key \in DOMAIN f /\ key # "meta"
InMeta(f, key) == "meta" \in DOMAIN f /\ key \in DOMAIN f["meta"].d
PredicatesOn(plan, key) ==
    {j \in 1..Len(plan.predicates) : plan.predicates[j].get.key = key}

\* The typed records the remote records convert to, and those of them that
\* every predicate of the plan keeps.
TypedRecord(record) == Convert(Class(request.point_type), record, Registry, last.at)
AllTrue(run) == run.ok /\ \A j \in 1..Len(run.v) : run.v[j]
Kept(point) ==
    point.ok /\ AllTrue(RunPredicates(pointQuery.predicates, 1, point.v, <<>>, last.at))
Values(points) == [i \in 1..Len(points) |-> points[i].v]
Matching(records) ==
    Values(SelectSeq([i \in 1..Len(records) |-> TypedRecord(records[i])], Kept))

\* C1: PointQuery.execute returns, in the order the remote search returned
\* them, exactly the converted records that every local predicate of the
\* plan keeps (here: whenever all the remote records convert).
C1_ExecuteReturnsMatching ==
    (last.op = "execute" /\ \A i \in 1..Len(last.arg) : TypedRecord(last.arg[i]).ok)
        => (last.out.ok /\ last.out.v = Matching(last.arg))

\* C2: the pointer_type entry of a compiled filter is the canonical
\* discriminator of the target point type, and no local predicate reads
\* pointer_type, whatever clauses the list holds.
C2_DiscriminatorInjected ==
    CompileReturned =>
        /\ Plan.filter["pointer_type"] = Word(get_pointer_type(request.point_type))
        /\ PredicatesOn(Plan, "pointer_type") = {}

\* C3: the base Point constructed from a mapping, keyword fields or both
\* (keyword fields overriding) is of the subtype its resulting pointer_type
\* names, of the base type when that is unrecognized or missing, and a
\* missing pointer_type is set to 'GenericPointer'.
Given == Update(IF request.dict = None THEN EmptyMap ELSE request.dict.d, request.kwargs)
C3_SubtypeByDiscriminator ==
    (last.op = "construct" /\ request.cls = "Point") =>
        /\ last.out.ok
        /\ last.out.v.cls = (IF Get(Given, "pointer_type") \in {Word("Plant"), Word("ToolSlot")}
                             THEN Given["pointer_type"].w ELSE "Point")
        /\ ("pointer_type" \notin DOMAIN Given
                => last.out.v.d["pointer_type"] = Word("GenericPointer"))

\* C4: the raw Plant record {id: 1, pointer_type: 'Plant', x: '10', y: '20',
\* z: None} becomes a typed Plant with x = 10, y = 20, z = 0, when a plan
\* compiled for Plant is executed and when the record is converted: a null
\* coordinate neither raises nor stays null.
IsScenarioPlant(point) ==
    /\ point.cls = "Plant"
    /\ point.d["x"] = PyInt(10) /\ point.d["y"] = PyInt(20) /\ point.d["z"] = PyInt(0)
C4_NullCoordinateBecomesZero ==
    /\ (last.op = "execute" /\ request.point_type = "Plant" /\ last.arg = <<ScenarioPlant>>)
          => (last.out.ok /\ Len(last.out.v) = 1 /\ IsScenarioPlant(last.out.v[1]))
    /\ (last.op = "convert" /\ request.shape = Class("Plant")
            /\ request.data = ScenarioPlant)
          => (last.out.ok /\ IsScenarioPlant(last.out.v))

\* A non-negated literal clause of the list compiled, alone on its key.
LiteralClauseAt(i) ==
    i \in 1..Len(Query) /\ Query[i].marker = "" /\ IsLiteralValue(Query[i].value)
        /\ KeyOnce(i)

\* C5 as stated: a non-negated literal clause on a declared field (id and
\* meta included) is a top-level entry of the filter, and one on an
\* undeclared key is under 'meta' and not at top level.
C5_DeclaredKeysTopLevel ==
    CompileReturned =>
        \A i \in 1..Len(Query) : LiteralClauseAt(i) =>
            IF Query[i].key \in PropNames(request.point_type)
            THEN TopLevel(Plan.filter, Query[i].key, Query[i].value)
            ELSE /\ UnderMeta(Plan.filter, Query[i].key, Query[i].value)
                 /\ Query[i].key \notin DOMAIN Plan.filter

\* C5, amended: a non-negated literal clause on a declared field other than
\* id and meta is a top-level entry of the filter; one on id, on meta or on
\* an undeclared key is under the 'meta' sub-filter, and its key is no
\* top-level entry (but for 'meta', the name of the sub-filter itself).
C5_ReservedAndUndeclaredKeysUnderMeta ==
    CompileReturned =>
        \A i \in 1..Len(Query) : LiteralClauseAt(i) =>
            IF Query[i].key \in PropNames(request.point_type) \ {"id", "meta"}
            THEN /\ TopLevel(Plan.filter, Query[i].key, Query[i].value)
                 /\ ~InMeta(Plan.filter, Query[i].key)
            ELSE /\ UnderMeta(Plan.filter, Query[i].key, Query[i].value)
                 /\ (Query[i].key # "meta" => Query[i].key \notin DOMAIN Plan.filter)

\* A plan compiled from literal clauses on id, on a declared field and on an
\* undeclared key.
C5_Witness ==
    /\ CompileReturned
    /\ \E i \in 1..Len(Query) :
          LiteralClauseAt(i) /\ Query[i].key = "id" /\ InMeta(Plan.filter, "id")
    /\ \E i \in 1..Len(Query) :
          LiteralClauseAt(i) /\ Query[i].key = "color" /\ InMeta(Plan.filter, "color")
    /\ AtTop(Plan.filter, "pointer_type")

\* C6: a clause whose text matches the relative-date grammar without a
\* qualifier compiles to the instant in canonical ISO form under the clause
\* key of the filter, and to no local predicate.
IsCanonical(v) == IsStr(v) /\ v.form = "iso" /\ v.q = "" /\ v.frac = 6
EntryOf(f, key) ==
    IF InMeta(f, key) THEN f["meta"].d[key] ELSE IF AtTop(f, key) THEN f[key] ELSE None
UnqualifiedDateAt(i) ==
    IsDateValue(Query[i].value) /\ Query[i].value.q = "" /\ KeyOnce(i)
C6_UnqualifiedDateIsExactMatch ==
    (last.op = "compile" /\ \E i \in 1..Len(Query) : UnqualifiedDateAt(i)) =>
        /\ last.out.ok
        /\ \A i \in 1..Len(Query) : UnqualifiedDateAt(i) =>
              /\ IsCanonical(EntryOf(Plan.filter, Query[i].key))
              /\ PredicatesOn(Plan, Query[i].key) = {}

\* C7: a qualified comparison ('before X', 'after X', 'at least N', 'at most
\* N') compiles to exactly one local predicate and to no filter entry, and
\* the predicate keeps a typed record iff field < X, field > X, field >= N,
\* field <= N; negated, iff field >= X, field <= X, field < N, field > N.
QualifiedAt(i) ==
    /\ (IsDateValue(Query[i].value) /\ Query[i].value.q # "") \/ IsThreshold(Query[i].value)
    /\ KeyOnce(i)
Bound(p) == IF p.kind = "date" THEN p.date.n ELSE p.number.n
Keeps(clause, field, bound) ==
    LET holds == CASE IsThreshold(clause.value) /\ clause.value.form = "atleast" ->
                          field >= bound
                   [] IsThreshold(clause.value) /\ clause.value.form = "atmost" ->
                          field <= bound
                   [] IsDateValue(clause.value) /\ clause.value.q = "before" ->
                          field < bound
                   [] IsDateValue(clause.value) /\ clause.value.q = "after" ->
                          field > bound
    IN  IF clause.marker = "!" THEN ~holds ELSE holds
\* The fields of CompletePlant the comparisons of the model read.
FieldOfCompletePlant == [updated_at |-> Earlier, radius |-> 1]
OnTypedCompletePlant ==
    last.op = "predicates" /\ last.arg.typed /\ last.arg.data = CompletePlant
        /\ Len(Query) = 1
C7_QualifiedComparisonIsLocal ==
    /\ (last.op = "compile" /\ \E i \in 1..Len(Query) : QualifiedAt(i)) =>
          /\ last.out.ok
          /\ \A i \in 1..Len(Query) : QualifiedAt(i) =>
                /\ Cardinality(PredicatesOn(Plan, Query[i].key)) = 1
                /\ EntryOf(Plan.filter, Query[i].key) = None
    /\ (OnTypedCompletePlant /\ QualifiedAt(1)
            /\ Query[1].key \in DOMAIN FieldOfCompletePlant) =>
          /\ last.out.ok
          /\ last.out.v = <<Keeps(Query[1], FieldOfCompletePlant[Query[1].key],
                                  Bound(pointQuery.predicates[1]))>>

\* C8: a clause that matches neither grammar compiles, when negated, to no
\* filter entry and to one local predicate, which rejects exactly the typed
\* records whose field equals the literal; when not negated, to the
\* key/value entry of the filter and to no local predicate.
LiteralAt(i) ==
    IsLiteralValue(Query[i].value) /\ KeyOnce(i) /\ Query[i].key # "pointer_type"
C8_LiteralClause ==
    /\ CompileReturned =>
          \A i \in 1..Len(Query) : LiteralAt(i) =>
              IF Query[i].marker = "!"
              THEN /\ EntryOf(Plan.filter, Query[i].key) = None
                   /\ Cardinality(PredicatesOn(Plan, Query[i].key)) = 1
              ELSE /\ EntryOf(Plan.filter, Query[i].key) = Query[i].value
                   /\ PredicatesOn(Plan, Query[i].key) = {}
    /\ (OnTypedCompletePlant /\ LiteralAt(1) /\ Query[1].marker = "!"
            /\ Query[1].key = "name") =>
          /\ last.out.ok
          /\ last.out.v = <<CompletePlant.d["name"] # Query[1].value>>

\* C9: an instant expression ('now', 'in N unit', 'N unit ago', the unit one
\* of year, week, day, hour, minute, second) compiles to the instant the
\* clock reads plus the offset; it is neither rejected nor left as text.
IsRelative(v) ==
    /\ IsStr(v) /\ v.form \in {"now", "in", "ago"}
    /\ v.form # "now" => v.u \in OffsetUnits(FALSE)
OffsetOf(v) ==
    CASE v.form = "now" -> 0
      [] v.form = "in" -> v.n * UnitSeconds[Plural[v.u]]
      [] v.form = "ago" -> 0 - v.n * UnitSeconds[Plural[v.u]]
InstantOf(plan, clause) ==
    IF clause.value.q = "" THEN EntryOf(plan.filter, clause.key)
    ELSE DateTime(Bound(plan.predicates[1]))
C9_InstantIsNowPlusOffset ==
    (last.op = "compile" /\ Len(Query) = 1 /\ Query[1].marker = ""
        /\ IsRelative(Query[1].value)) =>
        /\ last.out.ok
        /\ InstantOf(Plan, Query[1]).t \in {"str", "datetime"}
        /\ (Query[1].value.form = "now" \/ Query[1].value.u # "year")
              => InstantOf(Plan, Query[1]).n = last.at + OffsetOf(Query[1].value)

\* C10: the conversion function of a record type, given a mapping without a
\* declared field, builds the record with the field None: it never raises
\* and never puts another value in its place.
AbsentFields == PropNames(request.shape.name) \ DOMAIN request.data.d
C10_AbsentFieldIsNone ==
    (last.op = "convert" /\ request.data.t = "dict"
        /\ request.shape.name \notin PointFamily /\ AbsentFields # {}) =>
        /\ last.out.ok
        /\ \A key \in AbsentFields : last.out.v.d[key] = None

\* C12: over a series of get_factory calls the registry is append-only: an
\* entry is never removed nor replaced and no second function is made for
\* its shape, a resolve returns the function the registry holds, and a
\* resolve that fails adds no entry for its shape.
EntriesKept ==
    /\ factories \subseteq factories'
    /\ \A t \in factories : t \in DOMAIN funcs' /\ funcs'[t] = funcs[t]
ResolveAnswersEntry ==
    last.op = "resolve" =>
        IF last.out.ok
        THEN /\ request.shape \in factories
             /\ funcs[request.shape] = [n |-> 1, id |-> 1]
             /\ last.out.v = Function(request.shape, 1)
        ELSE request.shape \notin factories
C12_RegistryAppendOnly == [][EntriesKept]_vars /\ []ResolveAnswersEntry

\* A shape that had its entry is resolved again.
C12_Witness ==
    /\ last.op = "resolve" /\ last.arg.cached /\ last.out.ok
    /\ request.shape \notin InitialFactories

(***************************************************************************)
(* Concurrent callers of get_factory.                                      *)
(***************************************************************************)
Received(c) == callers[c].out.ok /\ callers[c].out.v # None

\* C11: when several threads call get_factory for the same shape, the
\* conversion function of the shape is computed at most once, and every
\* caller that has returned holds the one function object the registry holds.
C11_SingleFlight ==
    /\ Made(funcs, request.shape) <= 1
    /\ \A c \in Callers :
         Received(c) =>
            /\ request.shape \in factories
            /\ callers[c].out.v = Function(request.shape, funcs[request.shape].id)

(***************************************************************************)
(* Records and their declared fields.                                      *)
(***************************************************************************)
\* C13: the record the client holds, whichever way it was constructed (from
\* a mapping, from keyword fields, from both, by the factory of its type, by
\* Point dispatching to a subtype) and whatever apply calls were made on it
\* since (those that raised included), has every field its concrete type
\* declares as a key of its instance dictionary.
C13_DeclaredFieldsPresent ==
    held.v # None => PropNames(held.v.cls) \subseteq DOMAIN held.v.d

\* Point(...) made a Plant, and an apply call that removed a metadata key
\* completed on it.
C13_Witness ==
    /\ request.op = "construct" /\ request.cls = "Point"
    /\ held.v # None /\ held.v.cls = "Plant"
    /\ last.op = "apply" /\ last.out.ok
    /\ last.arg.updates = <<Change("", "color", None)>>
    /\ "color" \notin DOMAIN held.v.d["meta"].d

Omitted(keys) == keys \cap DOMAIN Given = {}
DefaultedFields == {"pointer_type", "x", "y", "z", "radius", "meta"}

\* C14: a point variant constructed directly with the discriminator, the
\* coordinates, the radius and the metadata omitted is a record of that
\* variant with the canonical discriminator of the variant, x = y = z = 0,
\* radius = 0.0 and meta = {}.
C14_DefaultsOfOmittedFields ==
    (last.op = "construct" /\ request.cls \in PointFamily /\ Omitted(DefaultedFields)) =>
        /\ last.out.ok
        /\ last.out.v.cls = request.cls
        /\ last.out.v.d["pointer_type"] = Word(get_pointer_type(request.cls))
        /\ \A c \in {"x", "y", "z"} : last.out.v.d[c] = PyInt(0)
        /\ last.out.v.d["radius"] = PyFloat(0)
        /\ last.out.v.d["meta"] = Dict(EmptyMap)

\* A ToolSlot made of a mapping and a keyword field that name none of them.
C14_Witness ==
    /\ last.op = "construct" /\ last.out.ok
    /\ request.cls = "ToolSlot" /\ Omitted(DefaultedFields)
    /\ request.dict # None /\ DOMAIN request.kwargs # {}

(***************************************************************************)
(* Point.apply: where an update is written.  The last call is an apply     *)
(* call; Before and After are the instance dictionary of the point before  *)
(* and after it.                                                           *)
(***************************************************************************)
Before == last.arg.self.d
After == held.v.d
Bucket(d) == d["meta"].d
Named == {last.arg.updates[i].key : i \in DOMAIN last.arg.updates}
Declared == PropNames(held.v.cls)

\* The value written: a text that is a relative date is resolved first.
ValueOf(update) == UpdateValue(update.value, last.at).v
Sum(a, b) == IF Add(a, b).ok THEN Add(a, b).v ELSE None

\* data1 holds the value of the update under its key (accumulated onto what
\* data0 held, with the append marker).
StoredIn(data0, data1, update) ==
    /\ update.key \in DOMAIN data1
    /\ IF update.marker = "+"
       THEN /\ update.key \in DOMAIN data0
            /\ data1[update.key] = Sum(data0[update.key], ValueOf(update))
       ELSE data1[update.key] = ValueOf(update)
ToField(update) == StoredIn(Before, After, update)
ToBucket(update) ==
    IF update.marker = "" /\ ValueOf(update) = None
    THEN update.key \notin DOMAIN Bucket(After)
    ELSE StoredIn(Bucket(Before), Bucket(After), update)

\* No declared field and no metadata key changes unless the updates name it.
Frame ==
    /\ \A k \in Declared \ ({"meta"} \cup Named) : After[k] = Before[k]
    /\ \A k \in (DOMAIN Bucket(Before) \cup DOMAIN Bucket(After)) \ Named :
         /\ k \in DOMAIN Bucket(Before) /\ k \in DOMAIN Bucket(After)
         /\ Bucket(After)[k] = Bucket(Before)[k]

\* C15 as stated: apply writes an update whose key is a declared field to
\* that field of the record and any other update to the metadata bucket,
\* where a None value removes the key; nothing the updates do not name
\* changes.
C15_DeclaredKeysOwnField ==
    last.op = "apply" =>
        /\ Frame
        /\ last.out.ok =>
             \A i \in DOMAIN last.arg.updates :
                IF last.arg.updates[i].key \in Declared
                THEN ToField(last.arg.updates[i])
                ELSE ToBucket(last.arg.updates[i])

\* C15, amended: apply writes an update whose key is a declared field other
\* than id and meta to that field of the record; an update whose key is id,
\* meta or no declared field goes to the metadata bucket, where a None value
\* removes the key, and leaves the fields id and meta of the record as they
\* were; nothing the updates do not name changes, also when the call raises.
C15_ReservedAndUndeclaredKeysToMeta ==
    last.op = "apply" =>
        /\ Frame
        /\ last.out.ok =>
             \A i \in DOMAIN last.arg.updates :
                IF last.arg.updates[i].key \in Declared \ {"id", "meta"}
                THEN ToField(last.arg.updates[i])
                ELSE /\ ToBucket(last.arg.updates[i])
                     /\ After["id"] = Before["id"]
                     /\ last.arg.updates[i].key # "meta" =>
                            Remove(Bucket(After), last.arg.updates[i].key)
                              = Remove(Bucket(Before), last.arg.updates[i].key)

\* An update of id completed on a Plant that has metadata.
C15_Witness ==
    /\ last.op = "apply" /\ last.out.ok
    /\ last.arg.updates = <<Change("", "id", PyInt(5))>>
    /\ held.v.cls = "Plant"
    /\ Bucket(Before) = [color |-> Word("red")]
    /\ Bucket(After) = [color |-> Word("red"), id |-> PyInt(5)]

(***************************************************************************)
(* The raw mapping a conversion function was given.                        *)
(***************************************************************************)
\* C16: after deserialize(T, data) for a record type T, whether it returned
\* a record or raised, and after any later apply call on the record it
\* returned, the mapping data holds the keys and values it held before.
C16_RawInputUnchanged ==
    (request.op = "convert" /\ last.op \in {"convert", "apply"}) => raw = request.data

(***************************************************************************)
(* Farmware.sync.                                                          *)
(***************************************************************************)
SyncEnded == farmware.called /\ farmware.pc = "idle"
Polling == farmware.called /\ farmware.cnt > 0

\* C17: a sync() call makes at most 29 status polls; it returns only after
\* a poll that reported 'synced', it raises the sync error exactly when a
\* poll reported 'sync_error' (and polls no further), it raises the timeout
\* error exactly when 29 polls reported neither, and otherwise it ends only
\* with the exception of a poll that failed; the device sync command was
\* issued once before the first poll when not in test mode, and never in
\* test mode.
C17_SyncOutcomes ==
    /\ farmware.cnt <= 29
    /\ Polling => farmware.issued = (IF farmware.debug THEN 0 ELSE 1)
    /\ SyncEnded =>
         /\ farmware.issued = (IF farmware.debug THEN 0 ELSE 1)
         /\ farmware.cnt > 0
         /\ CASE farmware.sync = Word("synced") -> farmware.out = Ok(None)
              [] farmware.sync = Word("sync_error") -> farmware.out = SyncError
              [] last.op = "bot_state" /\ ~last.out.ok -> farmware.out = last.out
              [] OTHER -> farmware.cnt = 29 /\ farmware.out = SyncTimeout

====
